---- MODULE Spec2Model ----
(***************************************************************************)
(* Model of src/app.py: the prompt builders, the response extractors, the  *)
(* batch wrappers, the cached model loaders and the button handlers of     *)
(* main.                                                                   *)
(*                                                                         *)
(* A Python str is a sequence of tokens.  A token is one character (space, *)
(* newline, '=', '?', the arrow U+2192) or a literal piece of text that    *)
(* holds no whitespace at its ends, no newline, no '=' and no marker       *)
(* ("x" is any such character run, "n" a number, "op" an operator, "e" an  *)
(* emoji).  The markers "Solution:" and "Correct:" are tokens of their own.*)
(* A Python value that may be None is None (<<>>) or Obj(v) (<<v>>).       *)
(***************************************************************************)
EXTENDS Integers, Sequences, FiniteSets, TLC

VARIABLES cache, loads, returned, ui, call

vars == <<cache, loads, returned, ui, call>>

(***************************** bounds **************************************)
\* longest user text given to a single-item function called on its own
MaxIn == 2
\* longest model continuation (or raw text) of a single-item call
MaxCont == 3
\* largest batch size requested (the selectboxes offer 1..10 and 1..5)
MaxN == 2
\* longest model continuation (or raw text) of one batch iteration
MaxBatchCont == 1
\* longest user text typed into the page
MaxUiIn == 1
\* longest model continuation (or raw text) of a call made from the page
MaxUiCont == 1
\* largest batch size requested from the page
MaxUiN == 1

(***************************** tokens **************************************)
SP == " "
NL == "\n"
EQ == "="
QM == "?"
ARROW == "->"
SOLUTION == "Solution:"
CORRECT == "Correct:"
PLACEHOLDER == "Could not generate solution"

None == <<>>
Obj(v) == <<v>>

SeqsUpTo(A, n) == UNION {[1..k -> A] : k \in 0..n}

(************************* Python str operations ***************************)
\* sep occurs in s at position i
OccursAt(s, sep, i) ==
  /\ i >= 1
  /\ i + Len(sep) - 1 <= Len(s)
  /\ \A k \in 1..Len(sep) : s[i + k - 1] = sep[k]

\* sep in s   (sep is never empty)
Contains(s, sep) == \E i \in 1..Len(s) : OccursAt(s, sep, i)

\* s.find(sep) + 1, and 0 when sep is absent
Find(s, sep) ==
  IF Contains(s, sep)
    THEN CHOOSE i \in 1..Len(s) :
           OccursAt(s, sep, i) /\ \A j \in 1..(i - 1) : ~OccursAt(s, sep, j)
    ELSE 0

\* s.startswith(p)
StartsWith(s, p) == OccursAt(s, p, 1)

RECURSIVE Split(_, _)
\* s.split(sep): the pieces between the non-overlapping occurrences of sep,
\* found left to right; a list of one piece when sep is absent
Split(s, sep) ==
  LET i == Find(s, sep)
  IN  IF i = 0
        THEN <<s>>
        ELSE <<SubSeq(s, 1, i - 1)>> \o Split(SubSeq(s, i + Len(sep), Len(s)), sep)

RECURSIVE Join(_, _)
\* sep.join(parts)
Join(parts, sep) ==
  IF Len(parts) = 0 THEN <<>>
  ELSE IF Len(parts) = 1 THEN parts[1]
  ELSE parts[1] \o sep \o Join(Tail(parts), sep)

\* s.replace(old, new)
Replace(s, old, new) == Join(Split(s, old), new)

IsSpace(t) == t \in {SP, NL}

\* s.strip()
Strip(s) ==
  LET keep == {i \in 1..Len(s) : ~IsSpace(s[i])}
  IN  IF keep = {}
        THEN <<>>
        ELSE SubSeq(s, CHOOSE i \in keep : \A j \in keep : i <= j,
                       CHOOSE i \in keep : \A j \in keep : j <= i)

\* s.split("\n")[0]
FirstLine(s) == Split(s, <<NL>>)[1]

(***************************** the generator *******************************)
\* What one call of the text-generation pipeline does: it raises, it returns
\* a list without a usable first element, it returns the prompt followed by
\* a continuation ("echo"), or it returns some other text ("bare").
Outcomes(A, n) ==
  {[kind |-> "raise", text |-> <<>>], [kind |-> "malformed", text |-> <<>>]}
    \cup {[kind |-> k, text |-> t] : k \in {"echo", "bare"}, t \in SeqsUpTo(A, n)}

\* output = generator(prompt, ...); output[0]["generated_text"]
\* Calling None raises TypeError; an empty list raises IndexError.
GeneratedText(generator, prompt, o) ==
  IF generator = None \/ o.kind \in {"raise", "malformed"}
    THEN [raised |-> TRUE, text |-> <<>>]
    ELSE [raised |-> FALSE,
          text |-> IF o.kind = "echo" THEN prompt \o o.text ELSE o.text]

\* one generator call as the functions below record it
LogEntry(prompt, g) ==
  [prompt |-> prompt, raw |-> IF g.raised THEN None ELSE Obj(g.text)]

\* except Exception: log and return None
Except(r) == IF r.raised THEN [r EXCEPT !.raised = FALSE, !.val = None] ELSE r

(*************************** single-item functions *************************)
RiddlePrompt(riddle) == <<"Riddle:", SP>> \o riddle \o <<NL, SOLUTION>>

riddle_solution_try(generator, riddle, o) ==
  LET prompt == RiddlePrompt(riddle)
      g == GeneratedText(generator, prompt, o)
      solution == IF Contains(g.text, <<SOLUTION>>)
                    THEN Strip(Split(g.text, <<SOLUTION>>)[2])
                    ELSE g.text
  IN  [raised |-> g.raised,
       val |-> IF g.raised THEN None ELSE Obj(Strip(FirstLine(solution))),
       log |-> <<LogEntry(prompt, g)>>]

\* generate_riddle_solution without its try/except
generate_riddle_solution_unguarded(generator, riddle, o) ==
  riddle_solution_try(generator, riddle, o)

generate_riddle_solution(generator, riddle, o) ==
  Except(riddle_solution_try(generator, riddle, o))

\* MemeText with the suffix appended whatever the text holds
MemeText_always(meme_text) == meme_text \o <<SP, EQ, SP, QM>>

\* if "=" not in meme_text: meme_text += " = ?"
MemeText(meme_text) ==
  IF ~Contains(meme_text, <<EQ>>) THEN meme_text \o <<SP, EQ, SP, QM>> ELSE meme_text

MemePrompt(meme_text) ==
  <<"Fix this incorrect math statement and explain the error:", NL, NL,
    "Incorrect:", SP>> \o meme_text \o <<NL, CORRECT>>

\* the correction before the '=' synthesis
MemeCorrection(full_response) ==
  LET correction == IF Contains(full_response, <<CORRECT>>)
                      THEN Strip(Split(full_response, <<CORRECT>>)[2])
                      ELSE full_response
  IN  Strip(FirstLine(correction))

\* MemeSynthesis with the right-hand side of the meme taken as the prefix
MemeSynthesis_rhs(meme_text, correction) ==
  IF ~Contains(correction, <<EQ>>)
    THEN Strip(Split(meme_text, <<EQ>>)[2]) \o <<SP, EQ, SP>> \o correction
    ELSE correction

\* if "=" not in correction: correction = f"{meme_text.split('=')[0].strip()} = {correction}"
MemeSynthesis(meme_text, correction) ==
  IF ~Contains(correction, <<EQ>>)
    THEN Strip(Split(meme_text, <<EQ>>)[1]) \o <<SP, EQ, SP>> \o correction
    ELSE correction

repair_meme_try(generator, meme_text, o) ==
  LET text == MemeText(meme_text)
      prompt == MemePrompt(text)
      g == GeneratedText(generator, prompt, o)
  IN  [raised |-> g.raised,
       val |-> IF g.raised THEN None
               ELSE Obj(MemeSynthesis(text, MemeCorrection(g.text))),
       log |-> <<LogEntry(prompt, g)>>]

repair_meme(generator, meme_text, o) == Except(repair_meme_try(generator, meme_text, o))

\* if "->" not in problem: problem += " ->"
EmojiPrompt(problem) ==
  IF ~Contains(problem, <<ARROW>>) THEN problem \o <<SP, ARROW>> ELSE problem

solve_emoji_math_try(generator, problem, o) ==
  LET prompt == EmojiPrompt(problem)
      g == GeneratedText(generator, prompt, o)
  IN  [raised |-> g.raised,
       val |-> IF g.raised THEN None
               ELSE IF Contains(g.text, <<ARROW>>)
                 THEN Obj(Strip(Split(g.text, <<ARROW>>)[2]))
                 ELSE Obj(g.text),
       log |-> <<LogEntry(prompt, g)>>]

solve_emoji_math(generator, problem, o) ==
  Except(solve_emoji_math_try(generator, problem, o))

(****************************** batch wrappers *****************************)
RECURSIVE riddles_loop(_, _, _, _, _)
\* for _ in range(num_riddles): ... of generate_riddles, from iteration i on
riddles_loop(generator, os, i, riddles, log) ==
  IF i > Len(os)
    THEN [raised |-> FALSE, val |-> Obj(riddles), log |-> log]
    ELSE
      LET g == GeneratedText(generator, <<"Riddle:">>, os[i])
          entry == LogEntry(<<"Riddle:">>, g)
          parts == Split(g.text, <<SOLUTION>>)
          item == IF Contains(g.text, <<SOLUTION>>)
                    THEN [riddle |-> Strip(parts[1]),
                          solution |-> FirstLine(Strip(parts[2]))]
                    ELSE [riddle |-> g.text, solution |-> <<PLACEHOLDER>>]
      IN  IF g.raised
            THEN [raised |-> TRUE, val |-> None, log |-> Append(log, entry)]
            ELSE riddles_loop(generator, os, i + 1, Append(riddles, item),
                              Append(log, entry))

\* riddles_try with the marker-less texts dropped, as generate_emoji_riddles
\* drops them
riddles_try_drop(generator, num_riddles, os) ==
  LET r == riddles_loop(generator, SubSeq(os, 1, num_riddles), 1, <<>>, <<>>)
  IN  IF r.raised THEN r
      ELSE [r EXCEPT !.val =
              Obj(SelectSeq(r.val[1], LAMBDA it : it.solution # <<PLACEHOLDER>>))]

riddles_try(generator, num_riddles, os) ==
  riddles_loop(generator, SubSeq(os, 1, num_riddles), 1, <<>>, <<>>)

generate_riddles(generator, num_riddles, os) ==
  Except(riddles_try(generator, num_riddles, os))

\* expr, with its optional third operand, "= wrong_answer" and the marker
MemeExamplePrompt(third) ==
  <<"Incorrect:", SP, "n", SP, "op", SP, "n">>
    \o (IF third THEN <<SP, "op", SP, "n">> ELSE <<>>)
    \o <<SP, EQ, SP, "n", NL, CORRECT>>

\* the body of the per-iteration try of generate_meme_examples
meme_example_try(generator, third, o) ==
  LET prompt == MemeExamplePrompt(third)
      g == GeneratedText(generator, prompt, o)
      before == Strip(FirstLine(Replace(prompt, <<"Incorrect:", SP>>, <<>>)))
  IN  [raised |-> g.raised,
       val |-> IF ~g.raised /\ Contains(g.text, <<NL, CORRECT>>)
                 THEN Obj([before |-> before,
                           after |-> Strip(Split(g.text, <<NL, CORRECT>>)[2])])
                 ELSE None,
       log |-> <<LogEntry(prompt, g)>>]

RECURSIVE meme_examples_loop(_, _, _, _, _, _)
meme_examples_loop(generator, rs, os, i, examples, log) ==
  IF i > Len(os)
    THEN [raised |-> FALSE,
          val |-> IF examples # <<>> THEN Obj(examples) ELSE None,
          log |-> log]
    ELSE
      LET r == Except(meme_example_try(generator, rs[i], os[i]))
      IN  IF r.raised
            THEN [raised |-> TRUE, val |-> None, log |-> log \o r.log]
            ELSE meme_examples_loop(generator, rs, os, i + 1,
                                    examples \o r.val, log \o r.log)

generate_meme_examples(generator, num_examples, rs, os) ==
  meme_examples_loop(generator, rs, SubSeq(os, 1, num_examples), 1, <<>>, <<>>)

\* the problem text of generate_emoji_riddles: "e e .. e op e = n" when the
\* operation is + or - ("es" is the joined run of count emojis), "e op n = n"
\* otherwise
EmojiProblem(additive) ==
  IF additive
    THEN <<"es", SP, "op", SP, "e", SP, EQ, SP, "n">>
    ELSE <<"e", SP, "op", SP, "n", SP, EQ, SP, "n">>

RECURSIVE emoji_riddles_loop(_, _, _, _, _, _)
emoji_riddles_loop(generator, rs, os, i, riddles, log) ==
  IF i > Len(os)
    THEN [raised |-> FALSE,
          val |-> IF riddles # <<>> THEN Obj(riddles) ELSE None,
          log |-> log]
    ELSE
      LET problem == EmojiProblem(rs[i])
          prompt == problem \o <<SP, ARROW>>
          g == GeneratedText(generator, prompt, os[i])
          entry == LogEntry(prompt, g)
          item == [problem |-> problem,
                   solution |-> Strip(Split(g.text, <<ARROW>>)[2])]
      IN  IF g.raised
            THEN [raised |-> TRUE, val |-> None, log |-> Append(log, entry)]
            ELSE emoji_riddles_loop(generator, rs, os, i + 1,
                   IF Contains(g.text, <<ARROW>>) THEN Append(riddles, item)
                                                  ELSE riddles,
                   Append(log, entry))

emoji_riddles_try(generator, num_riddles, rs, os) ==
  emoji_riddles_loop(generator, rs, SubSeq(os, 1, num_riddles), 1, <<>>, <<>>)

generate_emoji_riddles(generator, num_riddles, rs, os) ==
  Except(emoji_riddles_try(generator, num_riddles, rs, os))

(********************** the functions called on their own ******************)
RIDDLE_PATH == "./math_riddle_generator"
MEME_PATH == "./math_meme_repair"
EMOJI_BASE == "gpt2"
EMOJI_ADAPTER == "./emoji_math_solver"

\* the cache keys: the arguments of the cached call
RIDDLE_KEY == <<RIDDLE_PATH>>
MEME_KEY == <<MEME_PATH>>
EMOJI_KEY == <<EMOJI_BASE, EMOJI_ADAPTER>>
Keys == {RIDDLE_KEY, MEME_KEY, EMOJI_KEY}

\* the pipeline object that the k-th load under a key builds
Pipeline(key, k) == Obj(<<key, k>>)

(***************************** cached loaders ******************************)
\* cache_resource with a failed load not stored, so that it is run again
cache_resource_retry(c, l, key, ok) ==
  IF c[key] # <<>>
    THEN [generator |-> c[key][1], hit |-> TRUE, cache |-> c, loads |-> l]
    ELSE
      LET generator == IF ok THEN Pipeline(key, l[key] + 1) ELSE None
      IN  [generator |-> generator, hit |-> FALSE,
           cache |-> IF ok THEN [c EXCEPT ![key] = <<generator>>] ELSE c,
           loads |-> [l EXCEPT ![key] = @ + 1]]

\* @st.cache_resource: the first call under a key runs the function and
\* stores what it returns (None included: the function catches its own
\* exception and returns normally); later calls return the stored object.
\* c is the cache, l the count of loads run, ok whether from_pretrained and
\* pipeline succeed.
cache_resource(c, l, key, ok) ==
  IF c[key] # <<>>
    THEN [generator |-> c[key][1], hit |-> TRUE, cache |-> c, loads |-> l]
    ELSE
      LET generator == IF ok THEN Pipeline(key, l[key] + 1) ELSE None
      IN  [generator |-> generator, hit |-> FALSE,
           cache |-> [c EXCEPT ![key] = <<generator>>],
           loads |-> [l EXCEPT ![key] = @ + 1]]

load_model(c, l, model_path, ok) == cache_resource(c, l, <<model_path>>, ok)

load_emoji_model(c, l, base_model_path, adapter_path, ok) ==
  cache_resource(c, l, <<base_model_path, adapter_path>>, ok)

(******************************** main *************************************)
\* Python truth of a str or list that may be None
Truthy(v) == v # None /\ v[1] # <<>>

\* a script run that ends in a notice without calling the generator
Notice(button, m, input, notice) ==
  [button |-> button, generator |-> m.generator, hit |-> m.hit, input |-> input,
   calls |-> 0, failures |-> 0, notice |-> notice, shown |-> 0, escaped |-> FALSE]

\* a script run that called a core function: the result rendered (count
\* results shown), st.error on a falsy result, or the exception leaving main;
\* calls counts the generator calls made, failures those that gave no text
Rendered(button, m, input, r, count) ==
  [button |-> button, generator |-> m.generator, hit |-> m.hit, input |-> input,
   calls |-> Len(r.log),
   failures |-> Cardinality({i \in 1..Len(r.log) : r.log[i].raw = None}),
   notice |-> IF r.raised THEN "none"
              ELSE IF Truthy(r.val) THEN "rendered" ELSE "failed",
   shown |-> IF ~r.raised /\ Truthy(r.val) THEN count ELSE 0,
   escaped |-> r.raised]

\* solve_riddle_button without its "elif riddle_generator is None" branch
solve_riddle_button_unchecked(m, user_riddle, o) ==
  IF Strip(user_riddle) = <<>> THEN Notice("solve_riddle", m, user_riddle, "warning")
  ELSE Rendered("solve_riddle", m, user_riddle,
                generate_riddle_solution(m.generator, user_riddle, o), 1)

\* if st.button("Solve Riddle")
solve_riddle_button(m, user_riddle, o) ==
  IF Strip(user_riddle) = <<>> THEN Notice("solve_riddle", m, user_riddle, "warning")
  ELSE IF m.generator = None
    THEN Notice("solve_riddle", m, user_riddle, "model_failed")
  ELSE Rendered("solve_riddle", m, user_riddle,
                generate_riddle_solution(m.generator, user_riddle, o), 1)

\* if st.button("Generate Riddles")
generate_riddles_button(m, num_riddles, os) ==
  IF m.generator = None THEN Notice("generate_riddles", m, <<>>, "model_failed")
  ELSE LET r == generate_riddles(m.generator, num_riddles, os)
       IN  Rendered("generate_riddles", m, <<>>, r,
                    IF Truthy(r.val) THEN Len(r.val[1]) ELSE 0)

\* if st.button("Generate Examples")
generate_examples_button(m, num_examples, rs, os) ==
  IF m.generator = None THEN Notice("generate_examples", m, <<>>, "model_failed")
  ELSE LET r == generate_meme_examples(m.generator, num_examples, rs, os)
       IN  Rendered("generate_examples", m, <<>>, r,
                    IF Truthy(r.val) THEN Len(r.val[1]) ELSE 0)

\* if st.button("Repair This Meme")
repair_meme_button(m, meme_text, o) ==
  IF Strip(meme_text) = <<>> THEN Notice("repair_meme", m, meme_text, "warning")
  ELSE IF m.generator = None
    THEN Notice("repair_meme", m, meme_text, "model_failed")
  ELSE Rendered("repair_meme", m, meme_text,
                repair_meme(m.generator, meme_text, o), 1)

\* if st.button("Solve Emoji Math")
solve_emoji_math_button(m, user_problem, o) ==
  IF Strip(user_problem) = <<>>
    THEN Notice("solve_emoji_math", m, user_problem, "warning")
  ELSE IF m.generator = None
    THEN Notice("solve_emoji_math", m, user_problem, "model_failed")
  ELSE Rendered("solve_emoji_math", m, user_problem,
                solve_emoji_math(m.generator, user_problem, o), 1)

\* if st.button("Generate Emoji Problems")
generate_emoji_riddles_button(m, num_riddles, rs, os) ==
  IF m.generator = None THEN Notice("generate_emoji_riddles", m, <<>>, "model_failed")
  ELSE LET r == generate_emoji_riddles(m.generator, num_riddles, rs, os)
       IN  Rendered("generate_emoji_riddles", m, <<>>, r,
                    IF Truthy(r.val) THEN Len(r.val[1]) ELSE 0)

Idle == [fn |-> "idle", arg |-> <<>>, n |-> 0, os |-> <<>>,
         ret |-> [raised |-> FALSE, val |-> None, log |-> <<>>]]

NoUi == [button |-> "none", generator |-> None, hit |-> FALSE, input |-> <<>>,
         calls |-> 0, failures |-> 0, notice |-> "none", shown |-> 0,
         escaped |-> FALSE]

Init ==
  /\ cache = [k \in Keys |-> <<>>]
  /\ loads = [k \in Keys |-> 0]
  /\ returned = [k \in Keys |-> {}]
  /\ ui = NoUi
  /\ call = Idle

CallRiddleSolution ==
  /\ call.fn = "idle"
  /\ \E riddle \in SeqsUpTo({"x", SP, SOLUTION}, MaxIn),
        o \in Outcomes({"x", SP, NL, SOLUTION}, MaxCont) :
       call' = [fn |-> "generate_riddle_solution", arg |-> riddle, n |-> 1,
                os |-> <<o>>,
                ret |-> generate_riddle_solution(Pipeline(RIDDLE_KEY, 1), riddle, o)]
  /\ UNCHANGED <<cache, loads, returned, ui>>

CallRepairMeme ==
  /\ call.fn = "idle"
  /\ \E meme_text \in SeqsUpTo({"x", SP, EQ, CORRECT}, MaxIn),
        o \in Outcomes({"x", SP, NL, EQ, CORRECT}, MaxCont) :
       call' = [fn |-> "repair_meme", arg |-> meme_text, n |-> 1, os |-> <<o>>,
                ret |-> repair_meme(Pipeline(MEME_KEY, 1), meme_text, o)]
  /\ UNCHANGED <<cache, loads, returned, ui>>

CallSolveEmoji ==
  /\ call.fn = "idle"
  /\ \E problem \in SeqsUpTo({"x", SP, ARROW}, MaxIn),
        o \in Outcomes({"x", SP, NL, ARROW}, MaxCont) :
       call' = [fn |-> "solve_emoji_math", arg |-> problem, n |-> 1, os |-> <<o>>,
                ret |-> solve_emoji_math(Pipeline(EMOJI_KEY, 1), problem, o)]
  /\ UNCHANGED <<cache, loads, returned, ui>>

CallGenerateRiddles ==
  /\ call.fn = "idle"
  /\ \E n \in 1..MaxN :
       \E os \in [1..n -> Outcomes({"x", SOLUTION}, MaxBatchCont)] :
         call' = [fn |-> "generate_riddles", arg |-> <<>>, n |-> n, os |-> os,
                  ret |-> generate_riddles(Pipeline(RIDDLE_KEY, 1), n, os)]
  /\ UNCHANGED <<cache, loads, returned, ui>>

CallGenerateMemeExamples ==
  /\ call.fn = "idle"
  /\ \E n \in 1..MaxN :
       \E rs \in [1..n -> BOOLEAN],
          os \in [1..n -> Outcomes({NL, CORRECT}, MaxBatchCont)] :
         call' = [fn |-> "generate_meme_examples", arg |-> rs, n |-> n, os |-> os,
                  ret |-> generate_meme_examples(Pipeline(MEME_KEY, 1), n, rs, os)]
  /\ UNCHANGED <<cache, loads, returned, ui>>

CallGenerateEmojiRiddles ==
  /\ call.fn = "idle"
  /\ \E n \in 1..MaxN :
       \E rs \in [1..n -> BOOLEAN],
          os \in [1..n -> Outcomes({"x", ARROW}, MaxBatchCont)] :
         call' = [fn |-> "generate_emoji_riddles", arg |-> rs, n |-> n, os |-> os,
                  ret |-> generate_emoji_riddles(Pipeline(EMOJI_KEY, 1), n, rs, os)]
  /\ UNCHANGED <<cache, loads, returned, ui>>

\* the caller takes the result; the next call starts afresh
Return ==
  /\ call.fn # "idle"
  /\ call' = Idle
  /\ UNCHANGED <<cache, loads, returned, ui>>

NextCore ==
  \/ CallRiddleSolution
  \/ CallRepairMeme
  \/ CallSolveEmoji
  \/ CallGenerateRiddles
  \/ CallGenerateMemeExamples
  \/ CallGenerateEmojiRiddles
  \/ Return

SpecCore == Init /\ [][NextCore]_vars

(************************** the page: runs of main **************************)
\* what the page can be given
UiTexts == SeqsUpTo({"x", SP}, MaxUiIn)
UiOutcomes(marker) == Outcomes({"x", NL, marker}, MaxUiCont)
UiBatchOutcomes(marker) == Outcomes({"x", marker}, MaxUiCont)

\* whether the load succeeds, which matters only when the load runs
LoadOutcomes(key) == IF cache[key] = <<>> THEN BOOLEAN ELSE {TRUE}

\* the load at the top of a mode's branch of main
Loaded(m, key) ==
  /\ cache' = m.cache
  /\ loads' = m.loads
  /\ returned' = [returned EXCEPT ![key] = @ \cup {m.generator}]

\* a run of main with no button pressed: the mode's model is loaded and the
\* tabs are drawn
ViewMode ==
  /\ ui = NoUi
  /\ \/ \E ok \in LoadOutcomes(RIDDLE_KEY) :
          LET m == load_model(cache, loads, RIDDLE_PATH, ok)
          IN  Loaded(m, RIDDLE_KEY) /\ ui' = Notice("view", m, <<>>, "none")
     \/ \E ok \in LoadOutcomes(MEME_KEY) :
          LET m == load_model(cache, loads, MEME_PATH, ok)
          IN  Loaded(m, MEME_KEY) /\ ui' = Notice("view", m, <<>>, "none")
     \/ \E ok \in LoadOutcomes(EMOJI_KEY) :
          LET m == load_emoji_model(cache, loads, EMOJI_BASE, EMOJI_ADAPTER, ok)
          IN  Loaded(m, EMOJI_KEY) /\ ui' = Notice("view", m, <<>>, "none")
  /\ UNCHANGED call

SolveRiddle ==
  /\ ui = NoUi
  /\ \E ok \in LoadOutcomes(RIDDLE_KEY), user_riddle \in UiTexts, o \in UiOutcomes(SOLUTION) :
       LET m == load_model(cache, loads, RIDDLE_PATH, ok)
       IN  Loaded(m, RIDDLE_KEY) /\ ui' = solve_riddle_button(m, user_riddle, o)
  /\ UNCHANGED call

GenerateRiddles ==
  /\ ui = NoUi
  /\ \E ok \in LoadOutcomes(RIDDLE_KEY), num_riddles \in 1..MaxUiN :
       \E os \in [1..num_riddles -> UiBatchOutcomes(SOLUTION)] :
         LET m == load_model(cache, loads, RIDDLE_PATH, ok)
         IN  Loaded(m, RIDDLE_KEY) /\ ui' = generate_riddles_button(m, num_riddles, os)
  /\ UNCHANGED call

GenerateExamples ==
  /\ ui = NoUi
  /\ \E ok \in LoadOutcomes(MEME_KEY), num_examples \in 1..MaxUiN :
       \E rs \in [1..num_examples -> BOOLEAN],
          os \in [1..num_examples -> UiBatchOutcomes(CORRECT)] :
         LET m == load_model(cache, loads, MEME_PATH, ok)
         IN  Loaded(m, MEME_KEY)
               /\ ui' = generate_examples_button(m, num_examples, rs, os)
  /\ UNCHANGED call

RepairMeme ==
  /\ ui = NoUi
  /\ \E ok \in LoadOutcomes(MEME_KEY), meme_text \in UiTexts, o \in UiOutcomes(CORRECT) :
       LET m == load_model(cache, loads, MEME_PATH, ok)
       IN  Loaded(m, MEME_KEY) /\ ui' = repair_meme_button(m, meme_text, o)
  /\ UNCHANGED call

SolveEmojiMath ==
  /\ ui = NoUi
  /\ \E ok \in LoadOutcomes(EMOJI_KEY), user_problem \in UiTexts, o \in UiOutcomes(ARROW) :
       LET m == load_emoji_model(cache, loads, EMOJI_BASE, EMOJI_ADAPTER, ok)
       IN  Loaded(m, EMOJI_KEY) /\ ui' = solve_emoji_math_button(m, user_problem, o)
  /\ UNCHANGED call

GenerateEmojiRiddles ==
  /\ ui = NoUi
  /\ \E ok \in LoadOutcomes(EMOJI_KEY), num_riddles \in 1..MaxUiN :
       \E rs \in [1..num_riddles -> BOOLEAN],
          os \in [1..num_riddles -> UiBatchOutcomes(ARROW)] :
         LET m == load_emoji_model(cache, loads, EMOJI_BASE, EMOJI_ADAPTER, ok)
         IN  Loaded(m, EMOJI_KEY)
               /\ ui' = generate_emoji_riddles_button(m, num_riddles, rs, os)
  /\ UNCHANGED call

\* the user's next interaction starts a new script run: the elements of the
\* finished run are discarded, the cache is kept
Rerun ==
  /\ ui # NoUi
  /\ ui' = NoUi
  /\ UNCHANGED <<cache, loads, returned, call>>

Next ==
  \/ ViewMode
  \/ SolveRiddle
  \/ GenerateRiddles
  \/ GenerateExamples
  \/ RepairMeme
  \/ SolveEmojiMath
  \/ GenerateEmojiRiddles
  \/ Rerun

Spec == Init /\ [][Next]_vars

(******************************* properties ********************************)
Single == {"generate_riddle_solution", "repair_meme", "solve_emoji_math"}
Batch == {"generate_riddles", "generate_meme_examples", "generate_emoji_riddles"}

\* the literal a function looks for in the generated text
MarkerOf(fn) ==
  IF fn \in {"generate_riddle_solution", "generate_riddles"} THEN <<SOLUTION>>
  ELSE IF fn = "repair_meme" THEN <<CORRECT>>
  ELSE IF fn = "generate_meme_examples" THEN <<NL, CORRECT>>
  ELSE <<ARROW>>

\* the number of positions of s at which sep occurs
Occurrences(s, sep) == Cardinality({i \in 1..Len(s) : OccursAt(s, sep, i)})

\* everything of s after the first occurrence of sep
AfterFirst(s, sep) == SubSeq(s, Find(s, sep) + Len(sep), Len(s))

\* the single-item call that has returned, its prompt and the text generated
SingleDone == call.fn \in Single /\ call.ret.log[1].raw # None
ThePrompt == call.ret.log[1].prompt
TheText == call.ret.log[1].raw[1]

\* the generated text of a log entry begins with the exact prompt
Contract(e) == e.raw # None /\ StartsWith(e.raw[1], e.prompt)

\* what extraction is said to return from a text that holds the marker: the
\* trimmed first line of what follows the first marker
TrimmedFirstLineAfter(text, marker) ==
  Strip(FirstLine(Strip(AfterFirst(text, marker))))

\* that answer as the function returns it: repair_meme passes it through
\* its '=' synthesis
AsReturned(fn, answer) ==
  IF fn = "repair_meme" THEN MemeSynthesis(MemeText(call.arg), answer) ELSE answer

\* C1: for a generated text that is the prompt followed by a continuation
\* and that holds the marker exactly once, generate_riddle_solution,
\* repair_meme (before its '=' synthesis) and solve_emoji_math return the
\* whitespace-trimmed first line of what follows the marker.
C1_TrimmedFirstLine ==
  (/\ SingleDone
   /\ call.os[1].kind = "echo"
   /\ Occurrences(TheText, MarkerOf(call.fn)) = 1)
    => call.ret.val
         = Obj(AsReturned(call.fn, TrimmedFirstLineAfter(TheText, MarkerOf(call.fn))))

\* C2: when the marker occurs more than once in the generated text, the
\* three single-item functions split at the first occurrence only and keep
\* everything after it: what follows a later marker on the same line stays
\* in the answer (solve_emoji_math, which cuts no line, keeps all of it).
C2_KeepsAfterFirstMarker ==
  (/\ SingleDone
   /\ Occurrences(TheText, MarkerOf(call.fn)) > 1)
    => call.ret.val
         = Obj(AsReturned(call.fn,
             IF call.fn = "solve_emoji_math"
               THEN Strip(AfterFirst(TheText, MarkerOf(call.fn)))
               ELSE TrimmedFirstLineAfter(TheText, MarkerOf(call.fn))))

\* the answers a batch call returned
Answers ==
  IF call.ret.val = None THEN {}
  ELSE {IF call.fn = "generate_meme_examples" THEN call.ret.val[1][i].after
        ELSE call.ret.val[1][i].solution : i \in 1..Len(call.ret.val[1])}

\* C3: when the marker is absent from the generated text, every one of the
\* six functions returns the full raw text verbatim as the answer: not
\* trimmed, not cut to its first line, not replaced by a placeholder, not
\* dropped.
C3_RawTextOnMissingMarker ==
  /\ (SingleDone /\ ~Contains(TheText, MarkerOf(call.fn)))
       => call.ret.val = Obj(TheText)
  /\ call.fn \in Batch
       => \A i \in 1..Len(call.ret.log) :
            LET e == call.ret.log[i]
            IN  (e.raw # None /\ ~Contains(e.raw[1], MarkerOf(call.fn)))
                  => e.raw[1] \in Answers

\* iteration i of the batch call yields an item when run on its own: the
\* generator returns a text, and for the wrappers that look for the marker
\* before appending, the text holds it (an echoed prompt always does)
YieldsItem(i) ==
  \/ call.os[i].kind = "echo"
  \/ /\ call.os[i].kind = "bare"
     /\ \/ call.fn = "generate_riddles"
        \/ Contains(call.os[i].text, MarkerOf(call.fn))

\* C4: in every batch wrapper a failing iteration drops only its own item:
\* all N iterations run, the result holds the item of every iteration that
\* yields one, and None is returned only when no iteration yields an item.
C4_FailedItemsDropped ==
  call.fn \in Batch =>
    LET k == Cardinality({i \in 1..call.n : YieldsItem(i)})
    IN  /\ Len(call.ret.log) = call.n
        /\ IF k = 0 THEN call.ret.val = None
           ELSE call.ret.val # None /\ Len(call.ret.val[1]) = k

TextButtons == {"solve_riddle", "repair_meme", "solve_emoji_math"}
Buttons ==
  TextButtons \cup {"generate_riddles", "generate_examples", "generate_emoji_riddles"}

C6_LoadOnce ==
  \A k \in Keys :
    /\ loads[k] <= 1
    /\ Cardinality(returned[k]) <= 1
    /\ (cache[k] = <<>>) = (loads[k] = 0)
    /\ cache[k] # <<>> => returned[k] = {cache[k][1]}

\* a repeated call served from the cache after a failed load, while another
\* key holds a pipeline
C6_Witness ==
  /\ ui.hit
  /\ ui.generator = None
  /\ ui.button = "generate_riddles"
  /\ loads[RIDDLE_KEY] = 1
  /\ cache[MEME_KEY] = <<Pipeline(MEME_KEY, 1)>>

\* the text embedded in the prompt of repair_meme
EmbeddedMeme == SubSeq(ThePrompt, 6, Len(ThePrompt) - 2)

\* C7: repair_meme appends " = ?" exactly when the meme text holds no '=',
\* solve_emoji_math appends " ->" exactly when the problem holds no arrow;
\* a text that holds the character is embedded unchanged, and building the
\* prompt from the already suffixed text gives the same prompt.
C7_SuffixIffTriggerAbsent ==
  /\ call.fn = "repair_meme" =>
       /\ EmbeddedMeme = IF Contains(call.arg, <<EQ>>) THEN call.arg
                         ELSE call.arg \o <<SP, EQ, SP, QM>>
       /\ repair_meme(Pipeline(MEME_KEY, 1), EmbeddedMeme, call.os[1]).log[1].prompt
            = ThePrompt
  /\ call.fn = "solve_emoji_math" =>
       /\ ThePrompt = IF Contains(call.arg, <<ARROW>>) THEN call.arg
                      ELSE call.arg \o <<SP, ARROW>>
       /\ solve_emoji_math(Pipeline(EMOJI_KEY, 1), ThePrompt, call.os[1]).log[1].prompt
            = ThePrompt

C7_Witness ==
  /\ call.fn = "repair_meme"
  /\ call.arg = <<"x", EQ>>
  /\ EmbeddedMeme = <<"x", EQ>>

\* C8: no failure of a generator call leaves the core or main: whenever a
\* call raised or returned a malformed result, the run of main ends in a
\* rendered result or in the "Failed to ..." notice, with no exception
\* escaping.
C8_FailuresContained ==
  /\ ~ui.escaped
  /\ ui.failures > 0 => ui.notice \in {"rendered", "failed"}

C8_Witness ==
  /\ ui.button = "generate_emoji_riddles"
  /\ ui.failures = 1
  /\ ui.notice = "failed"
  /\ ~ui.escaped

\* the left-hand side of the (suffixed) meme text: what precedes its first '='
MemeLhs == Strip(SubSeq(EmbeddedMeme, 1, Find(EmbeddedMeme, <<EQ>>) - 1))

\* C9: a non-None result of repair_meme is the extracted first-line
\* correction itself when that holds '=', and "<LHS> = <correction>"
\* otherwise; either way it holds an '='.
C9_ResultHoldsEquals ==
  (call.fn = "repair_meme" /\ call.ret.val # None) =>
    LET correction == MemeCorrection(TheText)
    IN  /\ call.ret.val[1] = IF Contains(correction, <<EQ>>) THEN correction
                             ELSE MemeLhs \o <<SP, EQ, SP>> \o correction
        /\ Contains(call.ret.val[1], <<EQ>>)

C9_Witness ==
  /\ call.fn = "repair_meme"
  /\ call.arg = <<"x", EQ>>
  /\ call.os[1] = [kind |-> "echo", text |-> <<SP, "x", NL>>]
  /\ call.ret.val = Obj(<<"x", SP, EQ, SP, "x">>)

\* C10: when the generated text begins with the exact prompt, the marker is
\* never absent in repair_meme, generate_riddle_solution, solve_emoji_math,
\* generate_meme_examples and generate_emoji_riddles; in generate_riddles it
\* can be, the item then carries the placeholder solution, and the call
\* returns exactly N items when every generated text keeps the contract.
C10_MarkerAbsentOnlyInGenerateRiddles ==
  /\ (call.fn \in (Single \cup Batch) /\ call.fn # "generate_riddles")
       => \A i \in 1..Len(call.ret.log) :
            Contract(call.ret.log[i])
              => Contains(call.ret.log[i].raw[1], MarkerOf(call.fn))
  /\ (/\ call.fn = "generate_riddles"
      /\ Len(call.ret.log) > 0
      /\ \A i \in 1..Len(call.ret.log) : Contract(call.ret.log[i]))
       => /\ call.ret.val # None
          /\ Len(call.ret.val[1]) = call.n
          /\ \A i \in 1..call.n :
               ~Contains(call.ret.log[i].raw[1], <<SOLUTION>>)
                 => call.ret.val[1][i] = [riddle |-> call.ret.log[i].raw[1],
                                          solution |-> <<PLACEHOLDER>>]

C10_Witness ==
  /\ call.fn = "generate_riddles"
  /\ call.n = 2
  /\ \A i \in 1..2 : Contract(call.ret.log[i])
  /\ ~Contains(call.ret.log[1].raw[1], <<SOLUTION>>)
  /\ Contains(call.ret.log[2].raw[1], <<SOLUTION>>)
  /\ Len(call.ret.val[1]) = 2
  /\ call.ret.val[1][1].solution = <<PLACEHOLDER>>

====
